---- MODULE Spec2Model ----
(***************************************************************************)
(* Quiz presenter (QuAzI/quiz-20260116).  The repository holds two         *)
(* versions of the App component:                                          *)
(*   "lazy"  - src/unnamed/part_000: a background image is drawn at the    *)
(*             moment of selection (answerFooterImage), digit keys 1..4    *)
(*             select an option;                                           *)
(*   "eager" - src/unnamed/part_001: a background is drawn for every       *)
(*             question position at load and restart (backgroundMap).      *)
(* Both share shuffle, loadJsonWithFallback, normalizeQuestions and the    *)
(* load / select / next / restart handlers.  The variable `variant` says   *)
(* which of the two components is running.                                 *)
(*                                                                         *)
(* Indices are kept 0-based as in the source: currentIndex ranges over     *)
(* 0..total and questions[currentIndex] of the source is                   *)
(* questions[currentIndex + 1] here.                                       *)
(*                                                                         *)
(* React runs each event handler to completion and re-renders (effects     *)
(* included) before the next discrete event is dispatched, so a handler    *)
(* together with the render that follows it is one atomic action, and the  *)
(* derived values of the render (currentQuestion, total, answered,         *)
(* isFinished, which controls exist, whether the keydown listener is       *)
(* installed) are operators over the state.                                *)
(*                                                                         *)
(* Response bodies are taken from the interface's types: a question body   *)
(* is a JSON array of records with optional fields, a background body a    *)
(* JSON array of strings; a body that is not JSON at all is the parse      *)
(* failure of JsonReject.                                                  *)
(***************************************************************************)
EXTENDS Integers, Sequences, FiniteSets, TLC

VARIABLES
    variant,            \* "lazy" (part_000) or "eager" (part_001)
    loaders,            \* the two loadJsonWithFallback calls in flight: "q", "b"
    state,              \* LoadState
    questions,
    backgrounds,
    backgroundMap,      \* eager only
    currentIndex,
    selectedIndex,
    errorMessage,
    answerFooterImage,  \* lazy only
    lastEvent,          \* history: the last step taken (event dispatched or promise settled)
    presented,          \* history: the questions displayed since the load or the last restart
    call                \* a call of shuffle or normalizeQuestions on its own (NoCall in the component's runs)

vars == <<variant, loaders, state, questions, backgrounds, backgroundMap,
          currentIndex, selectedIndex, errorMessage, answerFooterImage, lastEvent,
          presented, call>>

sessionVars == <<state, questions, backgrounds, backgroundMap, currentIndex,
                 selectedIndex, errorMessage, answerFooterImage>>

----------------------------------------------------------------------------
(* Bounds of the model *)

MaxRaw == 2           \* longest question body (raw records)
MaxBackgrounds == 1   \* longest background body (references)
MaxNormalize == 2     \* longest input of a normalizeQuestions call on its own
MaxShuffle == 3       \* longest input of a shuffle call on its own

----------------------------------------------------------------------------
(* Values *)

\* JavaScript null for string-valued state (answerFooterImage, backgroundMap entries)
Null == "null"

\* JavaScript null for selectedIndex
NoSelection == 0 - 1

NumOptions == 4

\* the candidate lists of part_000; part_001 names other paths, also two per resource
QUESTION_SOURCES == <<"./questions.json", "/questions.json">>
BACKGROUND_SOURCES == <<"./backgrounds/index.json", "/backgrounds/index.json">>

Sources(l) == IF l = "q" THEN QUESTION_SOURCES ELSE BACKGROUND_SOURCES

\* new Error("Unable to load JSON")
UnableToLoadMessage == "Unable to load JSON"
\* "Нет подходящих вопросов в файле." (transliterated)
NoQuestionsMessage == "Net podkhodyashchikh voprosov v faile."
\* the message of the TypeError a rejected fetch() carries (browser-defined)
NetworkErrorMessage == "Failed to fetch"
\* the message of the SyntaxError a rejected response.json() carries (browser-defined)
JsonErrorMessage == "Unexpected token in JSON"

----------------------------------------------------------------------------
(* Strings are sequences of one-character strings *)

IsSpace(c) == c \in {" ", "\t", "\n"}

RECURSIVE trimStart(_)
trimStart(s) ==
    IF s = <<>> THEN <<>>
    ELSE IF IsSpace(Head(s)) THEN trimStart(Tail(s))
    ELSE s

RECURSIVE trimEnd(_)
trimEnd(s) ==
    IF s = <<>> THEN <<>>
    ELSE IF IsSpace(s[Len(s)]) THEN trimEnd(SubSeq(s, 1, Len(s) - 1))
    ELSE s

\* mutant: a hand-written trim that removes one white space character at each end
trimOnce(s) ==
    LET t == IF s # <<>> /\ IsSpace(Head(s)) THEN Tail(s) ELSE s
    IN  IF t # <<>> /\ IsSpace(t[Len(t)]) THEN SubSeq(t, 1, Len(t) - 1) ELSE t

\* String.prototype.trim
trim(s) == trimEnd(trimStart(s))

----------------------------------------------------------------------------
(* normalizeQuestions.  A raw record is a function whose domain holds the   *)
(* fields that are present: entry.question?.trim() ?? "" is "" when the    *)
(* field is missing.                                                       *)

normalizeOption(option) ==
    LET text == IF "text" \in DOMAIN option THEN trim(option.text) ELSE <<>>
    IN  IF "right" \in DOMAIN option
        THEN [text |-> text, right |-> option.right]
        ELSE [text |-> text]

normalizeEntry(entry) ==
    [question |-> IF "question" \in DOMAIN entry THEN trim(entry.question) ELSE <<>>,
     options  |-> IF "options" \in DOMAIN entry
                  THEN [k \in 1..Len(entry.options) |-> normalizeOption(entry.options[k])]
                  ELSE <<>>]

\* mutant: the option count tested with >=
keepEntryAtLeastFour(entry) == entry.question # <<>> /\ Len(entry.options) >= NumOptions

keepEntry(entry) == entry.question # <<>> /\ Len(entry.options) = NumOptions

normalizeQuestions(raw) ==
    SelectSeq([k \in 1..Len(raw) |-> normalizeEntry(raw[k])], keepEntry)

----------------------------------------------------------------------------
(* shuffle: Fisher-Yates.  `choices` gives, for every i the loop visits    *)
(* (0-based i = length-1 down to 1), the j = floor(random * (i + 1)) drawn *)
(* from 0..i.                                                              *)

\* mutant: the swap written as an assignment, result[i] = result[j]
SwapOverwrite(s, a, b) == [s EXCEPT ![a] = s[b]]

Swap(s, a, b) == [s EXCEPT ![a] = s[b], ![b] = s[a]]

ShuffleChoices(n) == [1..(n - 1) -> 0..(n - 1)]

\* mutant: j = floor(random * length), drawn from the whole array at every i
ValidChoicesWholeArray(n) == ShuffleChoices(n)

ValidChoices(n) == {c \in ShuffleChoices(n) : \A i \in 1..(n - 1) : c[i] <= i}

RECURSIVE shuffleLoop(_, _, _)
shuffleLoop(result, i, choices) ==
    IF i > 0
    THEN shuffleLoop(Swap(result, i + 1, choices[i] + 1), i - 1, choices)
    ELSE result

shuffleWith(items, choices) == shuffleLoop(items, Len(items) - 1, choices)

\* every result shuffle(items) can return
shuffle(items) == {shuffleWith(items, c) : c \in ValidChoices(Len(items))}

----------------------------------------------------------------------------
(* createBackgroundMap (eager) *)

createBackgroundMap(count, pool) ==
    IF Len(pool) = 0
    THEN {[k \in 1..count |-> Null]}
    ELSE [1..count -> {pool[k] : k \in 1..Len(pool)}]

----------------------------------------------------------------------------
(* Response bodies *)

Opt(t, r) == [text |-> t, right |-> r]
OptNoFlag(t) == [text |-> t]

\* a valid record whose prompt needs trimming; option 0 is the right one
RecA == [question |-> <<" ", "Q", "1", " ">>,
         options  |-> <<Opt(<<"a">>, TRUE), OptNoFlag(<<"b">>), OptNoFlag(<<" ", "c">>), Opt(<<"d">>, FALSE)>>]
\* a valid record with an option without text
RecB == [question |-> <<"Q", "2">>,
         options  |-> <<OptNoFlag(<<"a">>), Opt(<<"b">>, TRUE), [right |-> FALSE], OptNoFlag(<<>>)>>]
\* a record normalization drops: whitespace-only prompt
RecBlank == [question |-> <<" ", " ">>,
             options  |-> <<OptNoFlag(<<"a">>), OptNoFlag(<<"b">>), OptNoFlag(<<"c">>), OptNoFlag(<<"d">>)>>]

RawRecords == {RecA, RecB, RecBlank}

BackgroundRefs == {"a.png", "/b.png"}

SeqsUpTo(S, n) == UNION {[1..k -> S] : k \in 0..n}

QuestionBodies == SeqsUpTo(RawRecords, MaxRaw)
BackgroundBodies == SeqsUpTo(BackgroundRefs, MaxBackgrounds)

Bodies(l) == IF l = "q" THEN QuestionBodies ELSE BackgroundBodies

----------------------------------------------------------------------------
(* Values derived in render *)

total == Len(questions)
HasCurrentQuestion == currentIndex < total      \* questions[currentIndex] is defined
currentQuestion == questions[currentIndex + 1]
answered == selectedIndex # NoSelection
isFinished == state = "ready" /\ currentIndex >= total

----------------------------------------------------------------------------
(* What the render shows *)

\* {state === "ready" && !isFinished && currentQuestion && ( ... the question view ... )}
QuestionRendered == state = "ready" /\ ~isFinished /\ HasCurrentQuestion

\* the option elements: part_001 renders <button disabled={answered}>, which gets no
\* click; part_000 renders <a> elements whose onClick stays attached
OptionClickable == QuestionRendered /\ (variant = "eager" => ~answered)

\* mutant: the next button rendered without the `answered &&` condition
NextButtonAlwaysRendered == QuestionRendered

\* {answered && ( <button onClick={handleNext}> )} inside the question view
NextButtonRendered == QuestionRendered /\ answered

\* mutant: the "new session" control is part of the question view too
RestartButtonAlwaysRendered == state = "ready"

\* {state === "ready" && isFinished && ( ... <button onClick={handleRestart}> )}
RestartButtonRendered == state = "ready" /\ isFinished

\* the effect that installs the keydown listener (part_000 only)
KeyListenerInstalled ==
    variant = "lazy" /\ ~(state # "ready" \/ ~HasCurrentQuestion \/ answered)

\* Boolean(option.right)
isCorrect(option) == "right" \in DOMAIN option /\ option.right

isSelected(index) == selectedIndex = index

showCorrect(index) == answered /\ isCorrect(currentQuestion.options[index + 1])

\* mutant: `isSelected &&` left out
showWrongUnselected(index) == answered /\ ~isCorrect(currentQuestion.options[index + 1])

showWrong(index) ==
    answered /\ isSelected(index) /\ ~isCorrect(currentQuestion.options[index + 1])

\* the style of the option element at `index` of the question view
OptionClass(index) ==
    IF showCorrect(index) THEN "correct"
    ELSE IF showWrong(index) THEN "wrong"
    ELSE "idle"

\* a string is truthy unless it is empty; null and undefined are not
Truthy(ref) == ref # Null /\ ref # ""

\* part_000: {answered && answerFooterImage && ( <img ...> )} inside the question view
AnswerImageShown == QuestionRendered /\ answered /\ Truthy(answerFooterImage)

\* part_001: backgroundMap[currentIndex], undefined past the end
currentBackground ==
    IF currentIndex < Len(backgroundMap) THEN backgroundMap[currentIndex + 1] ELSE Null

\* part_001: backgroundStyle is set on the outer element unless !currentBackground
BackdropShown == Truthy(currentBackground)

BackgroundShown == IF variant = "lazy" THEN AnswerImageShown ELSE BackdropShown

\* history: what the question view has displayed.  A step displays a question when
\* it ends with the question view rendered and either starts a run (`fresh`: the
\* load, a restart), or moves the position, or brings the view up.
Display(fresh) ==
    LET before == IF fresh THEN <<>> ELSE presented
        newView == fresh \/ ~QuestionRendered \/ currentIndex' # currentIndex
    IN  presented' = IF QuestionRendered' /\ newView
                     THEN Append(before, currentQuestion')
                     ELSE before

----------------------------------------------------------------------------
(* The state of the component: the useState cells of App, and for each of  *)
(* the two loadJsonWithFallback calls where it stands (pc), the candidate  *)
(* it is on (idx), the candidates it has fetched (attempts) and what it    *)
(* settled with (value, error)                                             *)

LoaderOK(l) ==
    /\ loaders[l].pc \in {"fetching", "parsing", "fulfilled", "rejected"}
    /\ loaders[l].idx \in 0..(Len(Sources(l)) - 1)
    /\ loaders[l].value \in Bodies(l)
    /\ loaders[l].error \in {"", UnableToLoadMessage, NetworkErrorMessage, JsonErrorMessage}

TypeOK ==
    /\ variant \in {"lazy", "eager"}
    /\ \A l \in {"q", "b"} : LoaderOK(l)
    /\ state \in {"loading", "ready", "error"}
    /\ Len(questions) <= MaxRaw
    /\ backgrounds \in BackgroundBodies
    /\ Len(backgroundMap) \in {0, Len(questions)}
    /\ currentIndex \in 0..MaxRaw
    /\ selectedIndex \in {NoSelection} \cup (0..(NumOptions - 1))
    /\ errorMessage \in {"", UnableToLoadMessage, NetworkErrorMessage, JsonErrorMessage,
                         NoQuestionsMessage}
    /\ answerFooterImage \in {Null} \cup BackgroundRefs
    /\ lastEvent.op \in {"mount", "fetch", "load", "select", "advance", "restart", "keydown"}
    /\ Len(presented) <= Len(questions)

----------------------------------------------------------------------------
(* Initial state: useState defaults, both retrievals started on their     *)
(* first candidate                                                         *)

NewLoader == [pc |-> "fetching", idx |-> 0, attempts |-> <<0>>, value |-> <<>>, error |-> ""]

\* no function is being called on its own
NoCall == [fn |-> "none"]

\* the component right after mounting
Mounted ==
    /\ loaders = [l \in {"q", "b"} |-> NewLoader]
    /\ state = "loading"
    /\ questions = <<>>
    /\ backgrounds = <<>>
    /\ backgroundMap = <<>>
    /\ currentIndex = 0
    /\ selectedIndex = NoSelection
    /\ errorMessage = ""
    /\ answerFooterImage = Null
    /\ lastEvent = [op |-> "mount", arg |-> NoSelection, prevented |-> FALSE]
    /\ presented = <<>>

Init ==
    /\ variant \in {"lazy", "eager"}
    /\ Mounted
    /\ call = NoCall

----------------------------------------------------------------------------
(* loadJsonWithFallback: one step per await.  A fetch() settles in one of  *)
(* three ways: a response with ok set, a response with ok unset (404, 500),*)
(* or a rejection (network failure), which the loop does not catch.        *)

FetchOutcomes == {"ok", "notok", "reject"}

\* the loader record after `await fetch(source)` settles with `outcome`
AfterFetch(l, ld, outcome) ==
    IF outcome = "ok"
    THEN [ld EXCEPT !.pc = "parsing"]
    ELSE IF outcome = "notok"
    THEN IF ld.idx + 1 < Len(Sources(l))
         THEN [ld EXCEPT !.idx = ld.idx + 1, !.attempts = Append(ld.attempts, ld.idx + 1)]
         ELSE [ld EXCEPT !.pc = "rejected", !.error = UnableToLoadMessage]
    ELSE [ld EXCEPT !.pc = "rejected", !.error = NetworkErrorMessage]

FetchRespond(l, outcome) ==
    /\ loaders[l].pc = "fetching"
    /\ loaders' = [loaders EXCEPT ![l] = AfterFetch(l, loaders[l], outcome)]
    /\ lastEvent' = [op |-> "fetch", arg |-> NoSelection, prevented |-> FALSE]
    /\ UNCHANGED <<call, variant, sessionVars, presented>>

\* response.json() resolves with the parsed body
JsonResolve(l, body) ==
    /\ loaders[l].pc = "parsing"
    /\ loaders' = [loaders EXCEPT ![l] = [@ EXCEPT !.pc = "fulfilled", !.value = body]]
    /\ lastEvent' = [op |-> "fetch", arg |-> NoSelection, prevented |-> FALSE]
    /\ UNCHANGED <<call, variant, sessionVars, presented>>

\* response.json() rejects: the body is not JSON
JsonReject(l) ==
    /\ loaders[l].pc = "parsing"
    /\ loaders' = [loaders EXCEPT ![l] = [@ EXCEPT !.pc = "rejected", !.error = JsonErrorMessage]]
    /\ lastEvent' = [op |-> "fetch", arg |-> NoSelection, prevented |-> FALSE]
    /\ UNCHANGED <<call, variant, sessionVars, presented>>

----------------------------------------------------------------------------
(* load: the continuation of Promise.all, and its catch                    *)

Settled(l) == loaders[l].pc \in {"fulfilled", "rejected"}

\* loadJsonWithFallback(BACKGROUND_SOURCES).catch(() => [])
backgroundList == IF loaders["b"].pc = "fulfilled" THEN loaders["b"].value ELSE <<>>

\* mutant: the continuation runs on the question retrieval alone
AllResolvedQuestionsOnly == loaders["q"].pc = "fulfilled"

\* Promise.all resolves once both of its promises are fulfilled
AllResolved == loaders["q"].pc = "fulfilled" /\ Settled("b")

\* Promise.all rejects as soon as the question retrieval rejects
AllRejected == loaders["q"].pc = "rejected"

\* mutant: the "no questions" message is never set
LoadResolveNoMessage ==
    /\ state = "loading"
    /\ AllResolved
    /\ \E shuffled \in shuffle(normalizeQuestions(loaders["q"].value)) :
        /\ questions' = shuffled
        /\ backgrounds' = backgroundList
        /\ IF variant = "eager"
           THEN backgroundMap' \in createBackgroundMap(Len(shuffled), backgroundList)
           ELSE UNCHANGED backgroundMap
        /\ state' = IF Len(shuffled) # 0 THEN "ready" ELSE "error"
    /\ lastEvent' = [op |-> "load", arg |-> NoSelection, prevented |-> FALSE]
    /\ UNCHANGED <<call, variant, loaders, currentIndex, selectedIndex, answerFooterImage,
                   errorMessage>>
    /\ Display(TRUE)

LoadResolve ==
    /\ state = "loading"
    /\ AllResolved
    /\ \E shuffled \in shuffle(normalizeQuestions(loaders["q"].value)) :
        /\ questions' = shuffled
        /\ backgrounds' = backgroundList
        /\ IF variant = "eager"
           THEN backgroundMap' \in createBackgroundMap(Len(shuffled), backgroundList)
           ELSE UNCHANGED backgroundMap
        /\ state' = IF Len(shuffled) # 0 THEN "ready" ELSE "error"
        /\ errorMessage' = IF Len(shuffled) = 0 THEN NoQuestionsMessage ELSE errorMessage
    /\ lastEvent' = [op |-> "load", arg |-> NoSelection, prevented |-> FALSE]
    /\ UNCHANGED <<call, variant, loaders, currentIndex, selectedIndex, answerFooterImage>>
    /\ Display(TRUE)

\* mutant: the catch branch sets the message but not the state
LoadRejectKeepsLoading ==
    /\ state = "loading"
    /\ AllRejected
    /\ state' = state
    /\ errorMessage' = loaders["q"].error
    /\ lastEvent' = [op |-> "load", arg |-> NoSelection, prevented |-> FALSE]
    /\ UNCHANGED <<call, variant, loaders, questions, backgrounds, backgroundMap, presented,
                   currentIndex, selectedIndex, answerFooterImage>>

LoadReject ==
    /\ state = "loading"
    /\ AllRejected
    /\ state' = "error"
    /\ errorMessage' = loaders["q"].error
    /\ lastEvent' = [op |-> "load", arg |-> NoSelection, prevented |-> FALSE]
    /\ UNCHANGED <<call, variant, loaders, questions, backgrounds, backgroundMap, presented,
                   currentIndex, selectedIndex, answerFooterImage>>

----------------------------------------------------------------------------
(* Handlers *)

OptionIndices == 0..(NumOptions - 1)

\* mutant: a default image when the pool is empty
PickAnswerImageWithDefault ==
    IF Len(backgrounds) # 0 THEN {backgrounds[k] : k \in 1..Len(backgrounds)} ELSE {"a.png"}

\* backgrounds.length ? backgrounds[floor(random * backgrounds.length)] : null
PickAnswerImage ==
    IF Len(backgrounds) # 0 THEN {backgrounds[k] : k \in 1..Len(backgrounds)} ELSE {Null}

\* mutant: the guard without `answered`
handleOptionClickNoAnsweredGuard(index) ==
    /\ IF ~HasCurrentQuestion
       THEN UNCHANGED <<selectedIndex, answerFooterImage>>
       ELSE /\ selectedIndex' = index
            /\ IF variant = "lazy"
               THEN answerFooterImage' \in PickAnswerImage
               ELSE UNCHANGED answerFooterImage
    /\ UNCHANGED <<call, variant, loaders, state, questions, backgrounds, backgroundMap,
                   currentIndex, errorMessage>>

\* mutant: the guard without `!currentQuestion`
handleOptionClickNoQuestionGuard(index) ==
    /\ IF answered
       THEN UNCHANGED <<selectedIndex, answerFooterImage>>
       ELSE /\ selectedIndex' = index
            /\ IF variant = "lazy"
               THEN answerFooterImage' \in PickAnswerImage
               ELSE UNCHANGED answerFooterImage
    /\ UNCHANGED <<call, variant, loaders, state, questions, backgrounds, backgroundMap,
                   currentIndex, errorMessage>>

handleOptionClick(index) ==
    /\ IF answered \/ ~HasCurrentQuestion
       THEN UNCHANGED <<selectedIndex, answerFooterImage>>
       ELSE /\ selectedIndex' = index
            /\ IF variant = "lazy"
               THEN answerFooterImage' \in PickAnswerImage
               ELSE UNCHANGED answerFooterImage
    /\ UNCHANGED <<call, variant, loaders, state, questions, backgrounds, backgroundMap,
                   currentIndex, errorMessage>>

\* mutant: setAnswerFooterImage(null) forgotten
handleNextKeepsImage ==
    /\ IF currentIndex + 1 >= total
       THEN currentIndex' = total
       ELSE currentIndex' = currentIndex + 1
    /\ selectedIndex' = NoSelection
    /\ UNCHANGED <<call, variant, loaders, state, questions, backgrounds, backgroundMap,
                   errorMessage, answerFooterImage>>

\* mutant: the last step goes one past the end
handleNextOvershoot ==
    /\ IF currentIndex + 1 >= total
       THEN currentIndex' = total + 1
       ELSE currentIndex' = currentIndex + 1
    /\ selectedIndex' = NoSelection
    /\ answerFooterImage' = Null
    /\ UNCHANGED <<call, variant, loaders, state, questions, backgrounds, backgroundMap,
                   errorMessage>>

\* mutant: setSelectedIndex(null) forgotten
handleNextKeepsSelection ==
    /\ IF currentIndex + 1 >= total
       THEN currentIndex' = total
       ELSE currentIndex' = currentIndex + 1
    /\ answerFooterImage' = Null
    /\ UNCHANGED <<call, variant, loaders, state, questions, backgrounds, backgroundMap,
                   errorMessage, selectedIndex>>

\* mutant: every advance ends the session
handleNextAlwaysEnds ==
    /\ currentIndex' = total
    /\ selectedIndex' = NoSelection
    /\ answerFooterImage' = Null
    /\ UNCHANGED <<call, variant, loaders, state, questions, backgrounds, backgroundMap,
                   errorMessage>>

handleNext ==
    /\ IF currentIndex + 1 >= total
       THEN currentIndex' = total
       ELSE currentIndex' = currentIndex + 1
    /\ selectedIndex' = NoSelection
    /\ answerFooterImage' = Null
    /\ UNCHANGED <<call, variant, loaders, state, questions, backgrounds, backgroundMap,
                   errorMessage>>

\* mutant: restart goes back to loading
handleRestartReloads ==
    /\ \E shuffled \in shuffle(questions) :
        /\ questions' = shuffled
        /\ IF variant = "eager"
           THEN backgroundMap' \in createBackgroundMap(Len(shuffled), backgrounds)
           ELSE UNCHANGED backgroundMap
    /\ currentIndex' = 0
    /\ selectedIndex' = NoSelection
    /\ answerFooterImage' = Null
    /\ state' = "loading"
    /\ UNCHANGED <<call, variant, loaders, backgrounds, errorMessage>>

handleRestart ==
    /\ \E shuffled \in shuffle(questions) :
        /\ questions' = shuffled
        /\ IF variant = "eager"
           THEN backgroundMap' \in createBackgroundMap(Len(shuffled), backgrounds)
           ELSE UNCHANGED backgroundMap
    /\ currentIndex' = 0
    /\ selectedIndex' = NoSelection
    /\ answerFooterImage' = Null
    /\ UNCHANGED <<call, variant, loaders, state, backgrounds, errorMessage>>

----------------------------------------------------------------------------
(* Keyboard (part_000).  A key is a one-character string; its code unit    *)
(* decides event.key >= "1" && event.key <= "4".                           *)

Keys == {"0", "1", "2", "3", "4", "5", "a"}

CharCode(key) ==
    CASE key = "0" -> 48 [] key = "1" -> 49 [] key = "2" -> 50 [] key = "3" -> 51
      [] key = "4" -> 52 [] key = "5" -> 53 [] key = "a" -> 97

IsOptionKey(key) == CharCode(key) >= CharCode("1") /\ CharCode(key) <= CharCode("4")

\* Number(event.key) of a digit key
Number(key) == CharCode(key) - CharCode("0")

\* mutant: the isEditable test left out
handleKeyDownIgnoresEditable(key, isEditable) ==
    IF IsOptionKey(key)
    THEN /\ handleOptionClick(Number(key) - 1)
         /\ lastEvent' = [op |-> "keydown", arg |-> Number(key) - 1, prevented |-> TRUE]
    ELSE /\ UNCHANGED <<call, variant, loaders, sessionVars>>
         /\ lastEvent' = [op |-> "keydown", arg |-> NoSelection, prevented |-> FALSE]

handleKeyDown(key, isEditable) ==
    IF isEditable
    THEN /\ UNCHANGED <<call, variant, loaders, sessionVars>>
         /\ lastEvent' = [op |-> "keydown", arg |-> NoSelection, prevented |-> FALSE]
    ELSE IF IsOptionKey(key)
    THEN /\ handleOptionClick(Number(key) - 1)
         /\ lastEvent' = [op |-> "keydown", arg |-> Number(key) - 1, prevented |-> TRUE]
    ELSE /\ UNCHANGED <<call, variant, loaders, sessionVars>>
         /\ lastEvent' = [op |-> "keydown", arg |-> NoSelection, prevented |-> FALSE]

----------------------------------------------------------------------------
(* Events of the user interface: a handler runs when its control exists    *)

ClickOption(index) ==
    /\ OptionClickable
    /\ handleOptionClick(index)
    /\ lastEvent' = [op |-> "select", arg |-> index, prevented |-> FALSE]
    /\ Display(FALSE)

ClickNext ==
    /\ NextButtonRendered
    /\ handleNext
    /\ lastEvent' = [op |-> "advance", arg |-> NoSelection, prevented |-> FALSE]
    /\ Display(FALSE)

ClickRestart ==
    /\ RestartButtonRendered
    /\ handleRestart
    /\ lastEvent' = [op |-> "restart", arg |-> NoSelection, prevented |-> FALSE]
    /\ Display(TRUE)

\* a key press on the window; without the listener nothing handles it
KeyDown(key, isEditable) ==
    /\ variant = "lazy"
    /\ IF KeyListenerInstalled
       THEN handleKeyDown(key, isEditable)
       ELSE /\ UNCHANGED <<call, variant, loaders, sessionVars>>
            /\ lastEvent' = [op |-> "keydown", arg |-> NoSelection, prevented |-> FALSE]
    /\ Display(FALSE)

Next ==
    \/ \E l \in {"q", "b"}, outcome \in FetchOutcomes : FetchRespond(l, outcome)
    \/ \E l \in {"q", "b"} : \E body \in Bodies(l) : JsonResolve(l, body)
    \/ \E l \in {"q", "b"} : JsonReject(l)
    \/ LoadResolve
    \/ LoadReject
    \/ \E index \in OptionIndices : ClickOption(index)
    \/ ClickNext
    \/ ClickRestart
    \/ \E key \in Keys, isEditable \in BOOLEAN : KeyDown(key, isEditable)

Spec == Init /\ [][Next]_vars

\* The same program where every `await` that is pending eventually settles: each
\* fetch() responds or fails, each response.json() resolves or rejects, and the
\* continuation of a settled Promise.all runs (the microtask queue is drained).
Fairness ==
    /\ \A l \in {"q", "b"} : WF_vars(\E outcome \in FetchOutcomes : FetchRespond(l, outcome))
    /\ \A l \in {"q", "b"} : WF_vars(JsonReject(l) \/ \E body \in Bodies(l) : JsonResolve(l, body))
    /\ WF_vars(LoadResolve)
    /\ WF_vars(LoadReject)

SpecLive == Init /\ [][Next]_vars /\ Fairness

----------------------------------------------------------------------------
(* The handlers called at any time, whatever is rendered: the contract of  *)
(* select / advance / restart as operations of the session                 *)

CallSelect(index) ==
    /\ handleOptionClick(index)
    /\ lastEvent' = [op |-> "select", arg |-> index, prevented |-> FALSE]
    /\ Display(FALSE)

CallAdvance ==
    /\ handleNext
    /\ lastEvent' = [op |-> "advance", arg |-> NoSelection, prevented |-> FALSE]
    /\ Display(FALSE)

CallRestart ==
    /\ handleRestart
    /\ lastEvent' = [op |-> "restart", arg |-> NoSelection, prevented |-> FALSE]
    /\ Display(TRUE)

NextHandlers ==
    \/ Next
    \/ \E index \in OptionIndices : CallSelect(index)
    \/ CallAdvance
    \/ CallRestart

SpecHandlers == Init /\ [][NextHandlers]_vars

----------------------------------------------------------------------------
(* shuffle and normalizeQuestions called on their own.  `input` is the     *)
(* argument as it was at the call, `items` the caller's array as it is     *)
(* after the call, `output` what the call returned.                        *)

Prompts == {<<>>, <<" ">>, <<"Q">>, <<" ", "Q", " ">>, <<" ", " ", "Q">>}

ThreeOptions == <<Opt(<<"a">>, TRUE), OptNoFlag(<<"b">>), OptNoFlag(<<"c">>)>>
FourEmptyOptions == <<OptNoFlag(<<>>), [right |-> TRUE], OptNoFlag(<<" ">>), Opt(<<>>, FALSE)>>
FourOptions == <<OptNoFlag(<<"a", " ">>), Opt(<<"b">>, FALSE), Opt(<<" ", "c">>, TRUE), OptNoFlag(<<"d">>)>>
FiveOptions == <<Opt(<<"a">>, TRUE), OptNoFlag(<<"b">>), OptNoFlag(<<"c">>), OptNoFlag(<<"d">>), OptNoFlag(<<"e">>)>>

OptionLists == {<<>>, ThreeOptions, FourEmptyOptions, FourOptions, FiveOptions}

\* raw records: both fields, or one of them missing
NormalizeRecords ==
    {[question |-> p, options |-> o] : p \in Prompts, o \in OptionLists}
        \cup {[question |-> p] : p \in Prompts}
        \cup {[options |-> o] : o \in OptionLists}

NormalizeInputs == SeqsUpTo(NormalizeRecords, MaxNormalize)

ShuffleItems == 1..MaxShuffle

ShuffleInputs == SeqsUpTo(ShuffleItems, MaxShuffle)

NewCall(fn, input) ==
    [fn |-> fn, pc |-> "called", input |-> input, items |-> input,
     choices |-> <<>>, output |-> <<>>, again |-> <<>>]

InitCalls ==
    /\ variant = "lazy"
    /\ Mounted
    /\ \/ \E raw \in NormalizeInputs : call = NewCall("normalize", raw)
       \/ \E items \in ShuffleInputs : call = NewCall("shuffle", items)

\* mutant: `const result = items`, the swaps written into the caller's array
ItemsAfterShuffleInPlace(items, result) == result

\* `const result = [...items]`: the swaps are written into the copy
ItemsAfterShuffle(items, result) == items

ShuffleCall ==
    /\ call.fn = "shuffle" /\ call.pc = "called"
    /\ \E choices \in ValidChoices(Len(call.items)) :
        LET result == shuffleWith(call.items, choices)
        IN  call' = [call EXCEPT !.pc = "returned", !.choices = choices,
                                 !.output = result,
                                 !.items = ItemsAfterShuffle(call.items, result)]
    /\ UNCHANGED <<variant, loaders, sessionVars, lastEvent, presented>>

NormalizeCall ==
    /\ call.fn = "normalize" /\ call.pc = "called"
    /\ call' = [call EXCEPT !.pc = "returned", !.output = normalizeQuestions(call.items)]
    /\ UNCHANGED <<variant, loaders, sessionVars, lastEvent, presented>>

\* normalizeQuestions applied to its own output
NormalizeAgain ==
    /\ call.fn = "normalize" /\ call.pc = "returned"
    /\ call' = [call EXCEPT !.pc = "again", !.again = normalizeQuestions(call.output)]
    /\ UNCHANGED <<variant, loaders, sessionVars, lastEvent, presented>>

NextCalls ==
    \/ ShuffleCall
    \/ NormalizeCall
    \/ NormalizeAgain

SpecCalls == InitCalls /\ [][NextCalls]_vars

----------------------------------------------------------------------------
(* Vocabulary of the properties *)

\* ready(presenting): ready and not finished
Presenting == state = "ready" /\ ~isFinished

\* ready(finished)
Finished == state = "ready" /\ isFinished

Count(s, x) == Cardinality({k \in 1..Len(s) : s[k] = x})

\* the same multiset of elements, hence the same length
IsPermutation(s, t) ==
    /\ Len(s) = Len(t)
    /\ \A k \in 1..Len(t) : Count(s, t[k]) = Count(t, t[k])

\* the number of questions normalization keeps of the body the retrieval returned
ValidCount == Len(normalizeQuestions(loaders["q"].value))

----------------------------------------------------------------------------
\* C1: first selection wins.  Once a selection is recorded, a further select (click or
\* digit key) leaves selection and position as they are, and the selection changes
\* from a non-none value only to none, and only in an advance or restart step.
C1_FirstSelectionWins ==
    [][answered =>
        /\ (lastEvent'.op \in {"select", "keydown"} =>
                selectedIndex' = selectedIndex /\ currentIndex' = currentIndex)
        /\ (selectedIndex' # selectedIndex =>
                selectedIndex' = NoSelection /\ lastEvent'.op \in {"advance", "restart"})
      ]_vars

\* a second select, of another option, has been made and the first selection stands
C1_Witness ==
    /\ Presenting
    /\ answered
    /\ lastEvent.op = "select"
    /\ lastEvent.arg # selectedIndex

\* C2: the position increases only in a step taken from a state with a selection.
C2_AdvanceOnlyAfterSelection ==
    [][currentIndex' > currentIndex => selectedIndex # NoSelection]_vars

\* the next button has been used twice
C2_Witness == lastEvent.op = "advance" /\ currentIndex = 2

\* C3: outside ready(presenting), advance and select change nothing of the session.
C3_NoOpOutsidePresenting ==
    [][(lastEvent'.op \in {"advance", "select"} /\ ~Presenting) =>
            UNCHANGED <<sessionVars, loaders>>]_vars

\* advance has been called in the error state
C3_Witness == state = "error" /\ lastEvent.op = "advance"

\* C4: 0 <= position <= length; in the ready state the finished view is shown exactly
\* when position = length and the question view exactly when position < length.
C4_PositionInRange ==
    /\ 0 <= currentIndex
    /\ currentIndex <= total
    /\ state = "ready" =>
        /\ RestartButtonRendered <=> currentIndex = total
        /\ QuestionRendered <=> currentIndex < total

\* the last question has been passed
C4_Witness == Finished /\ currentIndex = total /\ total = 2 /\ lastEvent.op = "advance"

\* C5: every step that changes the position ends with no selection.
C5_SelectionResetOnMove ==
    [][currentIndex' # currentIndex => selectedIndex' = NoSelection]_vars

\* the session has been restarted from the finished state of two questions
C5_Witness ==
    /\ lastEvent.op = "restart"
    /\ Presenting
    /\ currentIndex = 0
    /\ selectedIndex = NoSelection
    /\ total = 2

\* C6: from ready(presenting) at position k, advance yields position k+1 and no
\* selection; the finished state when k = total-1, still presenting when k < total-1.
C6_AdvanceStep ==
    [][(lastEvent'.op = "advance" /\ Presenting) =>
        /\ currentIndex' = currentIndex + 1
        /\ selectedIndex' = NoSelection
        /\ UNCHANGED <<state, questions>>
        /\ (currentIndex = total - 1 => Finished' /\ currentIndex' = total)
        /\ (currentIndex < total - 1 => Presenting')
      ]_vars

\* an advance that left the session presenting
C6_Witness == lastEvent.op = "advance" /\ Presenting /\ currentIndex = 1

\* C7: restart from ready(finished) yields ready(presenting) at position 0 without
\* selection, the questions permuted, no fetch issued, the load state and the pool
\* unchanged, and (eager) one background entry per question position.
C7_Restart ==
    [][(lastEvent'.op = "restart" /\ Finished) =>
        /\ Presenting'
        /\ currentIndex' = 0
        /\ selectedIndex' = NoSelection
        /\ IsPermutation(questions', questions)
        /\ UNCHANGED <<loaders, state, backgrounds, errorMessage>>
        /\ (variant = "eager" =>
                /\ Len(backgroundMap') = Len(questions')
                /\ \A k \in 1..Len(backgroundMap') :
                        backgroundMap'[k] \in PickAnswerImage)
      ]_vars

\* a restart that produced an order other than the one normalization gave
C7_Witness ==
    /\ lastEvent.op = "restart"
    /\ Presenting
    /\ total = 2
    /\ questions # normalizeQuestions(loaders["q"].value)

\* C8: the load ends ready exactly when the question retrieval returned a body of
\* which normalization keeps a question; it ends in error when the retrieval failed
\* (with the failure's message) or no question is kept (with another message).
C8_LoadOutcome ==
    /\ state # "loading" => Settled("q")
    /\ state = "ready" <=>
        (state # "loading" /\ loaders["q"].pc = "fulfilled" /\ ValidCount >= 1)
    /\ (state # "loading" /\ loaders["q"].pc = "rejected") =>
        /\ state = "error"
        /\ errorMessage = loaders["q"].error
        /\ errorMessage # NoQuestionsMessage
    /\ (state # "loading" /\ loaders["q"].pc = "fulfilled" /\ ValidCount = 0) =>
        /\ state = "error"
        /\ errorMessage = NoQuestionsMessage

\* a body with records, none of them valid
C8_Witness ==
    /\ state = "error"
    /\ errorMessage = NoQuestionsMessage
    /\ Len(loaders["q"].value) > 0

\* C9: the session is ready only after both retrievals have settled; a failed
\* background retrieval gives an empty pool and never the error state; a failed
\* question retrieval is fatal whatever the background retrieval does.
C9_ForkJoin ==
    /\ state = "ready" => loaders["q"].pc = "fulfilled" /\ Settled("b")
    /\ (state = "ready" /\ loaders["b"].pc = "rejected") => backgrounds = <<>>
    /\ (state = "ready" /\ loaders["b"].pc = "fulfilled") => backgrounds = loaders["b"].value
    /\ state = "error" =>
        \/ loaders["q"].pc = "rejected"
        \/ loaders["q"].pc = "fulfilled" /\ ValidCount = 0
    /\ loaders["q"].pc = "rejected" => state # "ready"

\* ready although the background body could not be parsed
C9_Witness ==
    /\ state = "ready"
    /\ loaders["b"].pc = "rejected"
    /\ loaders["b"].error = JsonErrorMessage
    /\ backgrounds = <<>>

\* C10: the candidates are attempted in list order, and a retrieval fails only if every
\* candidate was attempted and none succeeded.
C10_OrderedFallback ==
    \A l \in {"q", "b"} :
        /\ \A k \in 1..Len(loaders[l].attempts) : loaders[l].attempts[k] = k - 1
        /\ loaders[l].pc = "rejected" => Len(loaders[l].attempts) = Len(Sources(l))

----------------------------------------------------------------------------
(* Vocabulary of the properties of normalize and shuffle *)

RawPrompt(r) == IF "question" \in DOMAIN r THEN r.question ELSE <<>>
RawOptions(r) == IF "options" \in DOMAIN r THEN r.options ELSE <<>>
RawText(o) == IF "text" \in DOMAIN o THEN o.text ELSE <<>>

\* the positions of the raw records the claim says are kept
Kept(raw) ==
    {k \in 1..Len(raw) : trim(RawPrompt(raw[k])) # <<>> /\ Len(RawOptions(raw[k])) = 4}

\* the place in the output of the kept record at position k
Rank(raw, k) == Cardinality({i \in Kept(raw) : i <= k})

\* the flag of the normalized option n is that of the raw option o
SameFlag(o, n) ==
    /\ "right" \in DOMAIN n <=> "right" \in DOMAIN o
    /\ "right" \in DOMAIN o => n.right = o.right

Distinct(s) == \A i, j \in 1..Len(s) : i # j => s[i] # s[j]

RECURSIVE Factorial(_)
Factorial(n) == IF n <= 1 THEN 1 ELSE n * Factorial(n - 1)

PermutationsOf(s) ==
    {t \in [1..Len(s) -> {s[k] : k \in 1..Len(s)}] : IsPermutation(t, s)}

\* C11: normalize keeps exactly the records with a non-empty trimmed prompt and
\* exactly 4 options (a missing options field counts as none), in input order, each
\* with its prompt trimmed and its options in order with texts trimmed and flags kept.
C11_NormalizeKeeps ==
    (call.fn = "normalize" /\ call.pc # "called") =>
        LET raw == call.input
            out == call.output
        IN  /\ Len(out) = Cardinality(Kept(raw))
            /\ \A k \in Kept(raw) :
                LET e == out[Rank(raw, k)]
                IN  /\ e.question = trim(raw[k].question)
                    /\ Len(e.options) = 4
                    /\ \A m \in 1..4 :
                        /\ e.options[m].text = trim(RawText(raw[k].options[m]))
                        /\ SameFlag(raw[k].options[m], e.options[m])

\* of a record with 5 options and one with 4 empty-text options, the second is kept
C11_Witness ==
    /\ call.fn = "normalize"
    /\ call.pc = "returned"
    /\ Len(call.input) = 2
    /\ Len(RawOptions(call.input[1])) = 5
    /\ trim(RawPrompt(call.input[1])) # <<>>
    /\ Len(call.output) = 1
    /\ \A m \in 1..4 : call.output[1].options[m].text = <<>>

\* C12: shuffle returns a sequence of the input's length with the input's multiset of
\* elements, and leaves the input as it was.
C12_ShufflePermutes ==
    (call.fn = "shuffle" /\ call.pc = "returned") =>
        /\ Len(call.output) = Len(call.input)
        /\ IsPermutation(call.output, call.input)
        /\ call.items = call.input

\* a shuffle that returned another order, with an element that occurs twice
C12_Witness ==
    /\ call.fn = "shuffle"
    /\ call.pc = "returned"
    /\ Len(call.input) = 3
    /\ ~Distinct(call.input)
    /\ call.output # call.input

\* C13: for an input of N distinct elements the choice sequences (j in 0..i for i from
\* the last index down to 1) correspond one to one to the N! permutations.
C13_ShuffleBijection ==
    (call.fn = "shuffle" /\ Distinct(call.input)) =>
        LET items == call.input
            cs == ValidChoices(Len(items))
        IN  /\ Cardinality(cs) = Factorial(Len(items))
            /\ \A c \in cs : shuffleWith(items, c) \in PermutationsOf(items)
            /\ \A c1, c2 \in cs :
                shuffleWith(items, c1) = shuffleWith(items, c2) => c1 = c2
            /\ \A t \in PermutationsOf(items) : \E c \in cs : shuffleWith(items, c) = t
            /\ call.pc = "returned" =>
                \A c \in cs : shuffleWith(items, c) = call.output => c = call.choices

\* three distinct elements returned in reverse order
C13_Witness ==
    /\ call.fn = "shuffle"
    /\ call.pc = "returned"
    /\ call.input = <<1, 2, 3>>
    /\ call.output = <<3, 2, 1>>

\* C18: normalize applied to its own output returns that output.
C18_NormalizeIdempotent ==
    (call.fn = "normalize" /\ call.pc = "again") => call.again = call.output

\* a second application to an output whose texts had to be trimmed
C18_Witness ==
    /\ call.fn = "normalize"
    /\ call.pc = "again"
    /\ Len(call.output) = 2
    /\ call.input[1].question # call.output[1].question
    /\ call.input[2].options # call.output[2].options

----------------------------------------------------------------------------
\* C14: the load state changes only from loading, to ready or to error, in the step
\* that ends the load; error and ready are never left, whatever select, advance and
\* restart do.
C14_LoadStateMonotone ==
    [][/\ state' # state =>
            /\ state = "loading"
            /\ state' \in {"ready", "error"}
            /\ lastEvent'.op = "load"
       /\ state = "error" => state' = "error"
       /\ state = "ready" => state' = "ready"
      ]_vars

\* restart has been called in the error state, which stands
C14_Witness == state = "error" /\ lastEvent.op = "restart"

\* C15: with an empty pool no background is shown: the answer image and every entry
\* of the background assignment are none, and the empty pool causes no error state.
C15_EmptyPoolShowsNothing ==
    backgrounds = <<>> =>
        /\ ~BackgroundShown
        /\ answerFooterImage = Null
        /\ \A k \in 1..Len(backgroundMap) : backgroundMap[k] = Null
        /\ state = "error" =>
            \/ loaders["q"].pc = "rejected"
            \/ loaders["q"].pc = "fulfilled" /\ ValidCount = 0

\* the background body was [], and a question has been answered after a restart
C15_Witness ==
    /\ Presenting
    /\ loaders["b"].pc = "fulfilled"
    /\ backgrounds = <<>>
    /\ answered
    /\ questions # normalizeQuestions(loaders["q"].value)

\* the option index the claim assigns to a key
KeyIndex(key) ==
    CASE key = "1" -> 0 [] key = "2" -> 1 [] key = "3" -> 2 [] key = "4" -> 3
      [] OTHER -> NoSelection

\* C16: a key press selects option key-1 exactly when the key is "1".."4", the state
\* is ready, a current question exists and is unanswered and the target is not
\* editable; otherwise the session is unchanged; preventDefault() is called only by
\* the presses that select, never for an editable target or another key.
C16_KeyboardBinding ==
    [][\A key \in Keys, isEditable \in BOOLEAN :
        KeyDown(key, isEditable) =>
            LET selects == selectedIndex' # selectedIndex
            IN  /\ selects <=>
                    /\ state = "ready" /\ HasCurrentQuestion /\ ~answered
                    /\ ~isEditable
                    /\ KeyIndex(key) # NoSelection
                /\ selects => selectedIndex' = KeyIndex(key)
                /\ ~selects => UNCHANGED sessionVars
                /\ (isEditable \/ KeyIndex(key) = NoSelection) => ~lastEvent'.prevented
                /\ lastEvent'.prevented <=> selects
      ]_vars

\* the key "4" has selected the last option
C16_Witness ==
    /\ lastEvent.op = "keydown"
    /\ lastEvent.prevented
    /\ lastEvent.arg = 3
    /\ selectedIndex = 3

\* the flag of the option at `index` of the current question is set
FlagSet(index) ==
    LET option == currentQuestion.options[index + 1]
    IN  "right" \in DOMAIN option /\ option.right = TRUE

\* C17: without a selection every option is shown idle; with one, every option whose
\* flag is set is shown correct, the selected option is shown wrong exactly when its
\* flag is absent or false, and no unselected option is shown wrong.
C17_RevealOnSelection ==
    QuestionRendered =>
        \A index \in 0..3 :
            /\ ~answered => OptionClass(index) = "idle"
            /\ (answered /\ FlagSet(index)) => OptionClass(index) = "correct"
            /\ (answered /\ index = selectedIndex) =>
                    (OptionClass(index) = "wrong" <=> ~FlagSet(index))
            /\ (answered /\ index # selectedIndex) => OptionClass(index) # "wrong"
            /\ OptionClass(index) = "correct" => FlagSet(index)

\* a wrong option is selected: it is shown wrong, the right one correct, another idle
C17_Witness ==
    /\ QuestionRendered
    /\ answered
    /\ OptionClass(selectedIndex) = "wrong"
    /\ \E index \in 0..3 : OptionClass(index) = "correct"
    /\ \E index \in 0..3 : OptionClass(index) = "idle"

\* C19 (lazy variant): the answer image becomes non-none only in a step that records a
\* selection, and is then drawn from the pool; every advance, restart and position
\* change clears it; so an image implies a selection.
C19_LazyImage ==
    /\ [](answerFooterImage # Null =>
            /\ variant = "lazy"
            /\ answered
            /\ \E k \in 1..Len(backgrounds) : answerFooterImage = backgrounds[k])
    /\ [][/\ (answerFooterImage' # answerFooterImage /\ answerFooterImage' # Null) =>
                /\ selectedIndex = NoSelection
                /\ selectedIndex' # NoSelection
                /\ lastEvent'.op \in {"select", "keydown"}
                /\ \E k \in 1..Len(backgrounds) : answerFooterImage' = backgrounds[k]
          /\ lastEvent'.op \in {"advance", "restart"} => answerFooterImage' = Null
          /\ currentIndex' # currentIndex => answerFooterImage' = Null
         ]_vars

\* an image is shown with the answer to the second question
C19_Witness ==
    /\ variant = "lazy"
    /\ currentIndex = 1
    /\ answered
    /\ AnswerImageShown

\* a retrieval is waiting for a fetch() to respond or for a body to be read
Awaiting(l) == loaders[l].pc \in {"fetching", "parsing"}

\* C20: when every fetch attempt eventually responds, the session eventually leaves
\* loading for ready or error.  Nothing else ends the load: while the question
\* retrieval awaits a response no step of the load is enabled, the state leaves
\* loading only in the step that follows the settled retrievals, and a retrieval
\* settles only through a response to one of its attempts.
C20_LoadCompletes ==
    /\ <>(state \in {"ready", "error"})
    /\ []((state = "loading" /\ Awaiting("q")) => ~ENABLED (LoadResolve \/ LoadReject))
    /\ [][/\ (state = "loading" /\ state' # "loading") =>
                /\ Settled("q")
                /\ loaders' = loaders
                /\ lastEvent'.op = "load"
          /\ \A l \in {"q", "b"} :
                loaders'[l] # loaders[l] => (Awaiting(l) /\ lastEvent'.op = "fetch")
         ]_vars

\* the load ended in error after every source of the questions answered "not ok"
C20_Witness ==
    /\ state = "error"
    /\ loaders["q"].pc = "rejected"
    /\ loaders["q"].error = UnableToLoadMessage
    /\ Len(loaders["q"].attempts) = Len(QUESTION_SOURCES)

\* the first n elements of a sequence
Prefix(seq, n) == SubSeq(seq, 1, IF n < Len(seq) THEN n ELSE Len(seq))

\* C21: a session presents every question exactly once.  While a question is
\* presented restart is not available; the order of the questions changes only in the
\* load and in a restart from the finished state; the position changes only by an
\* advance, by exactly 1, or by that restart, to 0; so what has been displayed since
\* the load or the last restart is the questions up to the position, in order, and
\* in the finished state all of them, each once.
C21_EveryQuestionOnce ==
    /\ [](Presenting => ~RestartButtonRendered)
    /\ [](state = "ready" => presented = Prefix(questions, currentIndex + 1))
    /\ [](Finished => presented = questions)
    /\ [][/\ questions' # questions =>
                \/ lastEvent'.op = "load"
                \/ lastEvent'.op = "restart" /\ Finished
          /\ currentIndex' # currentIndex =>
                \/ /\ lastEvent'.op = "advance"
                   /\ Presenting
                   /\ currentIndex' = currentIndex + 1
                   /\ questions' = questions
                \/ /\ lastEvent'.op = "restart"
                   /\ Finished
                   /\ currentIndex' = 0
          /\ lastEvent'.op = "advance" => currentIndex' = currentIndex + 1
          /\ lastEvent'.op = "restart" => (Finished /\ currentIndex' = 0 /\ Presenting')
         ]_vars

\* a second session over two different questions has been gone through to the end
C21_Witness ==
    /\ Finished
    /\ lastEvent.op = "advance"
    /\ total = 2
    /\ questions[1] # questions[2]
    /\ presented = questions
    /\ questions # normalizeQuestions(loaders["q"].value)

====
